---- MODULE Spec2Model ----
(***************************************************************************)
(* config/src/utils.rs: the port allocator (get_available_port and         *)
(* get_random_port), get_local_ip, get_available_port_in_multiaddr and     *)
(* get_genesis_txn, together with the part of the kernel's port table the  *)
(* allocator acts on.                                                      *)
(***************************************************************************)
EXTENDS Integers, Sequences, FiniteSets, TLC

VARIABLES
    op,         \* the function the caller invoked
    is_ipv4,    \* argument of get_available_port_in_multiaddr
    ip_proto,   \* local of get_available_port_in_multiaddr, <<>> until set
    pc,         \* position of the calling thread
    i,          \* iterations of the for loop started so far
    failures,   \* calls of get_random_port that returned Err
    port,       \* local `port` of get_random_port
    addr,       \* local `addr` of get_random_port, <<>> until set
    sockets,    \* sockets held by the locals of get_random_port, in declaration order
    open,       \* sockets this process has open: [kind, local, attempt]
    conn,       \* the loopback connection made by the current attempt
    rv,         \* value get_random_port is returning
    result,     \* value returned by get_available_port, <<>> until it returns
    log,        \* steps of the current attempt that succeeded, in order
    occupied,   \* ports on which another process holds a listener
    time_wait,  \* ports in the TIME_WAIT state
    if_addrs,   \* what get_if_addrs() answers
    config,     \* the NodeConfig passed to get_genesis_txn
    out         \* value returned by the other three functions, <<>> until set

vars == <<op, is_ipv4, ip_proto, pc, i, failures, port, addr, sockets, open, conn, rv,
          result, log, occupied, time_wait, if_addrs, config, out>>

allocVars == <<i, failures, port, addr, sockets, open, conn, rv, result, log>>
osVars == <<occupied, time_wait>>
inputVars == <<op, is_ipv4, if_addrs, config>>

----------------------------------------------------------------------------
(* Constants of the source *)

MAX_PORT_RETRIES == 1000

RANDOM_PORT_RANGE == [start |-> 10000, end |-> 30000]

(* Bounds of the model *)

\* gen_range's draws are the lowest port of the range and the PortsHigh highest
PortsHigh == 1

----------------------------------------------------------------------------
(* Option and io::Result values *)

None == <<>>
Some(x) == <<x>>

Ok(p) == [ok |-> TRUE, port |-> p]
Err == [ok |-> FALSE, port |-> 0]


----------------------------------------------------------------------------
(* The kernel's side *)

\* A port of the OS's ephemeral range, which lies above RANDOM_PORT_RANGE: what
\* the kernel picks for a bind on port 0 and for the local end of a connect.
EphemeralPorts == {RANDOM_PORT_RANGE.end * 2}

NoConn == [st |-> "none", fin |-> 0, accepted |-> FALSE]

ListenerPorts(socks) == {s.local : s \in {x \in socks : x.kind = "listener"}}

\* ports with a socket in the LISTEN state, of this process or of another
Listening == occupied \cup ListenerPorts(open)

\* a bind with SO_REUSEADDR succeeds on a port in TIME_WAIT, but not on a port
\* that has a listener
Bindable(p) == p \notin Listening

\* the ports the kernel may give to a bind that asks for `requested`
BoundPorts(requested) ==
    IF requested = 0
        THEN {e \in EphemeralPorts : Bindable(e) /\ e \notin time_wait}
        ELSE {p \in {requested} : Bindable(p)}

\* close of socket s: the connection and the TIME_WAIT set afterwards.  The end
\* that closes first is the one that passes through TIME_WAIT, once the other
\* end has closed too; a listener closed with a connection never accepted
\* resets that connection.
CloseConn(s, c) ==
    IF s.kind = "listener"
        THEN IF c.accepted THEN c ELSE NoConn
        ELSE IF c.st = "established" THEN [c EXCEPT !.st = "closing", !.fin = s.local]
             ELSE NoConn

CloseTimeWait(s, c, tw) ==
    IF s.kind # "listener" /\ c.st = "closing" THEN tw \cup {c.fin} ELSE tw

----------------------------------------------------------------------------
(* get_random_port *)

\* OsRng.gen_range(low, high): a value of the half-open range [low, high)
gen_range_inclusive(low, high) ==
    {low} \cup {high - k : k \in 0..PortsHigh}

gen_range(low, high) ==
    {low} \cup {high - k : k \in 1..PortsHigh}

\* the ports of the model
PortSample == gen_range(RANDOM_PORT_RANGE.start, RANDOM_PORT_RANGE.end)

\* the `?` operator: go on with `next` on Ok, leave the function with Err
Try(ok, next) == IF ok THEN next ELSE "err"

\* the port handed to TcpListener::bind
bind_arg_zero(p) == 0

bind_arg(p) == p

\* the local dropped next when the scope of get_random_port ends: locals are
\* dropped in reverse order of declaration
drop_index_forward(socks) == 1

drop_index(socks) == Len(socks)

\* the process's open sockets after the drop of the local holding s
close_leak(fds, s) == IF s.kind = "listener" THEN fds ELSE fds \ {s}

close(fds, s) == fds \ {s}

Socket(kind, local) == [kind |-> kind, local |-> local, attempt |-> i]

Leave(next, okpc) ==
    /\ pc' = IF next = "err" THEN "drop" ELSE okpc
    /\ rv' = IF next = "err" THEN Err ELSE rv

\* line 34
Draw ==
    /\ pc = "gen_range"
    /\ \E p \in gen_range(RANDOM_PORT_RANGE.start, RANDOM_PORT_RANGE.end) :
           port' = p
    /\ log' = <<"draw">>
    /\ addr' = None
    /\ conn' = NoConn
    /\ pc' = "bind"
    /\ UNCHANGED <<i, failures, sockets, open, rv, result>>
    /\ UNCHANGED <<osVars, inputVars, ip_proto, out>>

\* line 35
Bind ==
    /\ pc = "bind"
    /\ \/ \E b \in BoundPorts(bind_arg(port)) :
              /\ sockets' = Append(sockets, Socket("listener", b))
              /\ open' = open \cup {Socket("listener", b)}
              /\ log' = Append(log, "bind")
              /\ Leave(Try(TRUE, "local_addr"), "local_addr")
       \/ /\ UNCHANGED <<sockets, open, log>>
          /\ Leave(Try(FALSE, "local_addr"), "local_addr")
    /\ UNCHANGED <<i, failures, port, addr, conn, result>>
    /\ UNCHANGED <<osVars, inputVars, ip_proto, out>>

\* the listener held by the local `listener`
OwnListener == {s \in open : s.kind = "listener" /\ s.attempt = i}

\* line 36
LocalAddr ==
    /\ pc = "local_addr"
    /\ \/ \E l \in OwnListener :
              /\ addr' = Some([port |-> l.local])
              /\ log' = Append(log, "local_addr")
              /\ Leave(Try(TRUE, "connect"), "connect")
       \/ /\ UNCHANGED <<addr, log>>
          /\ Leave(Try(FALSE, "connect"), "connect")
    /\ UNCHANGED <<i, failures, port, sockets, open, conn, result>>
    /\ UNCHANGED <<osVars, inputVars, ip_proto, out>>

\* line 41
Connect ==
    /\ pc = "connect"
    /\ \/ /\ addr # None
          /\ \E l \in OwnListener : l.local = addr[1].port
          /\ \E e \in BoundPorts(0) :
                 /\ sockets' = Append(sockets, Socket("sender", e))
                 /\ open' = open \cup {Socket("sender", e)}
          /\ conn' = [st |-> "established", fin |-> 0, accepted |-> FALSE]
          /\ log' = Append(log, "connect")
          /\ Leave(Try(TRUE, "accept"), "accept")
       \/ /\ UNCHANGED <<sockets, open, conn, log>>
          /\ Leave(Try(FALSE, "accept"), "accept")
    /\ UNCHANGED <<i, failures, port, addr, result>>
    /\ UNCHANGED <<osVars, inputVars, ip_proto, out>>

\* line 42
Accept ==
    /\ pc = "accept"
    /\ \/ /\ conn.st = "established"
          /\ ~conn.accepted
          /\ \E l \in OwnListener :
                 /\ sockets' = Append(sockets, Socket("incoming", l.local))
                 /\ open' = open \cup {Socket("incoming", l.local)}
          /\ conn' = [conn EXCEPT !.accepted = TRUE]
          /\ log' = Append(log, "accept")
          /\ Leave(Try(TRUE, "ok"), "ok")
       \/ /\ UNCHANGED <<sockets, open, conn, log>>
          /\ Leave(Try(FALSE, "ok"), "ok")
    /\ UNCHANGED <<i, failures, port, addr, result>>
    /\ UNCHANGED <<osVars, inputVars, ip_proto, out>>

\* line 44: Ok(addr.port())
OkValue ==
    /\ pc = "ok"
    /\ rv' = IF addr = None THEN Ok(0) ELSE Ok(addr[1].port)
    /\ pc' = "drop"
    /\ UNCHANGED <<i, failures, port, addr, sockets, open, conn, result, log>>
    /\ UNCHANGED <<osVars, inputVars, ip_proto, out>>

\* line 45, and every `?` that leaves early: the locals go out of scope
DropLocal ==
    /\ pc = "drop"
    /\ sockets # <<>>
    /\ LET s == sockets[drop_index(sockets)] IN
           /\ conn' = CloseConn(s, conn)
           /\ time_wait' = CloseTimeWait(s, conn, time_wait)
           /\ open' = close(open, s)
           /\ sockets' = [k \in 1..(Len(sockets) - 1) |->
                             IF k < drop_index(sockets) THEN sockets[k]
                                                        ELSE sockets[k + 1]]
    /\ log' = Append(log, "drop")
    /\ UNCHANGED <<pc, i, failures, port, addr, rv, result, occupied>>
    /\ UNCHANGED <<inputVars, ip_proto, out>>

\* get_random_port returns to the `if let` of line 24
ReturnRandomPort ==
    /\ pc = "drop"
    /\ sockets = <<>>
    /\ pc' = "if_let"
    /\ UNCHANGED <<allocVars, osVars, inputVars, ip_proto, out>>

----------------------------------------------------------------------------
(* get_available_port *)

\* line 23: for _ in 0..MAX_PORT_RETRIES
for_has_next_inclusive(n) == n <= MAX_PORT_RETRIES

for_has_next(n) == n < MAX_PORT_RETRIES

\* lines 24-26: if let Ok(port) = get_random_port() { return port; }
if_let_unwrap(r) == IF r.ok THEN "return" ELSE "panic"

if_let(r) == IF r.ok THEN "return" ELSE "continue"

\* line 29: panic!
exhausted_zero == [pc |-> "returned", result |-> Some(0)]

exhausted == [pc |-> "panicked", result |-> None]

\* where get_available_port returns to
ReturnPc == IF op = "get_available_port" THEN "returned" ELSE "from_protocols"

CallGetAvailablePort ==
    /\ pc = "start"
    /\ op = "get_available_port"
    /\ pc' = "for"
    /\ UNCHANGED <<allocVars, osVars, inputVars, ip_proto, out>>

ForNext ==
    /\ pc = "for"
    /\ for_has_next(i)
    /\ i' = i + 1
    /\ pc' = "gen_range"
    /\ UNCHANGED <<failures, port, addr, sockets, open, conn, rv, result, log>>
    /\ UNCHANGED <<osVars, inputVars, ip_proto, out>>

Exhausted ==
    /\ pc = "for"
    /\ ~for_has_next(i)
    /\ pc' = IF exhausted.pc = "returned" THEN ReturnPc ELSE exhausted.pc
    /\ result' = exhausted.result
    /\ UNCHANGED <<i, failures, port, addr, sockets, open, conn, rv, log>>
    /\ UNCHANGED <<osVars, inputVars, ip_proto, out>>

IfLet ==
    /\ pc = "if_let"
    /\ pc' = CASE if_let(rv) = "return" -> ReturnPc
               [] if_let(rv) = "continue" -> "for"
               [] OTHER -> "panicked"
    /\ result' = IF if_let(rv) = "return" THEN Some(rv.port) ELSE result
    /\ failures' = IF rv.ok THEN failures ELSE failures + 1
    /\ UNCHANGED <<i, port, addr, sockets, open, conn, rv, log>>
    /\ UNCHANGED <<osVars, inputVars, ip_proto, out>>

AllocStep ==
    \/ ForNext
    \/ Exhausted
    \/ Draw
    \/ Bind
    \/ LocalAddr
    \/ Connect
    \/ Accept
    \/ OkValue
    \/ DropLocal
    \/ ReturnRandomPort
    \/ IfLet

----------------------------------------------------------------------------
(* Other processes and the passing of time *)

\* another process binds a port of its choice, as a concurrent call of
\* get_random_port does at line 35
OtherBind ==
    /\ \E p \in PortSample :
           /\ Bindable(p)
           /\ occupied' = occupied \cup {p}
    /\ UNCHANGED <<pc, allocVars, time_wait, inputVars, ip_proto, out>>

\* and closes it again
OtherClose ==
    /\ \E p \in occupied : occupied' = occupied \ {p}
    /\ UNCHANGED <<pc, allocVars, time_wait, inputVars, ip_proto, out>>

\* the grace period (about 60 s, line 40) ends; it outlasts the call
TimeWaitExpire ==
    /\ pc = "returned"
    /\ \E p \in time_wait : time_wait' = time_wait \ {p}
    /\ UNCHANGED <<pc, allocVars, occupied, inputVars, ip_proto, out>>

EnvStep ==
    \/ OtherBind
    \/ OtherClose
    \/ TimeWaitExpire

----------------------------------------------------------------------------
(* Specifications *)

NoIfAddrs == [ok |-> FALSE, val |-> <<>>]
NoConfig == [execution |-> [genesis |-> None, other |-> 0], other |-> 0]

InitLocals ==
    /\ pc = "start"
    /\ i = 0
    /\ failures = 0
    /\ port = 0
    /\ addr = None
    /\ sockets = <<>>
    /\ open = {}
    /\ conn = NoConn
    /\ rv = Err
    /\ result = None
    /\ log = <<>>
    /\ ip_proto = None
    /\ out = None
    /\ time_wait = {}

Init ==
    /\ InitLocals
    /\ op = "get_available_port"
    /\ is_ipv4 = FALSE
    /\ if_addrs = NoIfAddrs
    /\ config = NoConfig
    /\ occupied \in SUBSET PortSample

Next ==
    \/ CallGetAvailablePort
    \/ AllocStep
    \/ EnvStep

Spec == Init /\ [][Next]_vars

----------------------------------------------------------------------------
(* Addresses *)

Digits == <<"0", "1", "2", "3", "4", "5", "6", "7", "8", "9",
            "a", "b", "c", "d", "e", "f">>

\* the value of a digit in the given radix, -1 for any other character
DigitValue(c, radix) ==
    LET hits == {d \in 1..radix : Digits[d] = c}
    IN  IF hits = {} THEN -1 ELSE (CHOOSE d \in hits : TRUE) - 1

\* the number written by the characters s, -1 when one of them is no digit
RECURSIVE ParseNumber(_, _)
ParseNumber(s, radix) ==
    IF Len(s) = 0 THEN 0
    ELSE LET hi == ParseNumber(SubSeq(s, 1, Len(s) - 1), radix)
             lo == DigitValue(s[Len(s)], radix)
         IN  IF hi < 0 \/ lo < 0 THEN -1 ELSE hi * radix + lo

\* the pieces of s between the separators
RECURSIVE Split(_, _)
Split(s, sep) ==
    IF \A k \in 1..Len(s) : s[k] # sep THEN <<s>>
    ELSE LET k == CHOOSE n \in 1..Len(s) :
                      s[n] = sep /\ \A m \in 1..(n - 1) : s[m] # sep
         IN  <<SubSeq(s, 1, k - 1)>> \o Split(SubSeq(s, k + 1, Len(s)), sep)

ParseOk(a) == [ok |-> TRUE, val |-> a]
ParseErr == [ok |-> FALSE, val |-> <<>>]

\* "a.b.c.d".parse::<Ipv4Addr>(): four decimal numbers of at most three digits,
\* each at most 255
parse_ipv4(s) ==
    LET parts == Split(s, ".")
        good(part) == /\ Len(part) \in 1..3
                      /\ ParseNumber(part, 10) \in 0..255
    IN  IF Len(parts) = 4 /\ \A k \in 1..4 : good(parts[k])
            THEN ParseOk([k \in 1..4 |-> ParseNumber(parts[k], 10)])
            ELSE ParseErr

\* the groups written by s, a piece of an IPv6 literal holding no "::"
Groups(s) == IF Len(s) = 0 THEN <<>> ELSE Split(s, ":")

\* "...".parse::<Ipv6Addr>(): eight groups of one to four hexadecimal digits,
\* one run of zero groups written "::"
parse_ipv6(s) ==
    LET gaps == {k \in 1..(Len(s) - 1) : s[k] = ":" /\ s[k + 1] = ":"}
        good(g) == Len(g) \in 1..4 /\ ParseNumber(g, 16) \in 0..65535
        value(gs) == [k \in 1..Len(gs) |-> ParseNumber(gs[k], 16)]
    IN  IF gaps = {}
            THEN LET gs == Groups(s)
                 IN  IF Len(gs) = 8 /\ \A k \in 1..8 : good(gs[k])
                         THEN ParseOk(value(gs))
                         ELSE ParseErr
        ELSE IF Cardinality(gaps) > 1 THEN ParseErr
        ELSE LET k == CHOOSE n \in gaps : TRUE
                 head == Groups(SubSeq(s, 1, k - 1))
                 tail == Groups(SubSeq(s, k + 2, Len(s)))
             IN  IF /\ Len(head) + Len(tail) <= 7
                    /\ \A n \in 1..Len(head) : good(head[n])
                    /\ \A n \in 1..Len(tail) : good(tail[n])
                     THEN ParseOk(value(head)
                                  \o [n \in 1..(8 - Len(head) - Len(tail)) |-> 0]
                                  \o value(tail))
                     ELSE ParseErr

\* Protocol::Ip4, Protocol::Ip6, Protocol::Tcp
Ip4(a) == [tag |-> "Ip4", addr |-> a, port |-> 0]
Ip6(a) == [tag |-> "Ip6", addr |-> a, port |-> 0]
Tcp(p) == [tag |-> "Tcp", addr |-> <<>>, port |-> p]

\* IpAddr::V4, IpAddr::V6
V4(a) == [v |-> 4, a |-> a]
V6(a) == [v |-> 6, a |-> a]

\* Protocol::from(IpAddr)
Protocol_from(ip) == IF ip.v = 4 THEN Ip4(ip.a) ELSE Ip6(ip.a)

\* NetworkAddress::from(Protocol): the address of that one component
NetworkAddress_from(proto) == <<proto>>

\* NetworkAddress::from_protocols: fails on a sequence that is not well formed
from_protocols(protos) ==
    IF Len(protos) = 0 THEN ParseErr ELSE ParseOk(protos)

----------------------------------------------------------------------------
(* get_available_port_in_multiaddr *)

Ipv4Literal == <<"0", ".", "0", ".", "0", ".", "0">>
Ipv6Literal == <<":", ":", "1">>

\* lines 58-62; a failed parse makes unwrap panic
ip_proto_swapped(ipv4) ==
    IF ipv4
        THEN [ok |-> parse_ipv6(Ipv6Literal).ok, val |-> Ip6(parse_ipv6(Ipv6Literal).val)]
        ELSE [ok |-> parse_ipv4(Ipv4Literal).ok, val |-> Ip4(parse_ipv4(Ipv4Literal).val)]

select_ip_proto(ipv4) ==
    IF ipv4
        THEN [ok |-> parse_ipv4(Ipv4Literal).ok, val |-> Ip4(parse_ipv4(Ipv4Literal).val)]
        ELSE [ok |-> parse_ipv6(Ipv6Literal).ok, val |-> Ip6(parse_ipv6(Ipv6Literal).val)]

\* line 63: the protocols handed to from_protocols
protocols(proto, p) == <<proto, Tcp(p)>>

CallMultiaddr ==
    /\ pc = "start"
    /\ op = "get_available_port_in_multiaddr"
    /\ ip_proto' = IF select_ip_proto(is_ipv4).ok
                       THEN Some(select_ip_proto(is_ipv4).val) ELSE None
    /\ pc' = IF select_ip_proto(is_ipv4).ok THEN "for" ELSE "panicked"
    /\ UNCHANGED <<allocVars, osVars, inputVars, out>>

FromProtocols ==
    /\ pc = "from_protocols"
    /\ LET r == from_protocols(protocols(ip_proto[1], result[1])) IN
           /\ out' = IF r.ok THEN Some(r.val) ELSE None
           /\ pc' = IF r.ok THEN "returned" ELSE "panicked"
    /\ UNCHANGED <<allocVars, osVars, inputVars, ip_proto>>

InitMultiaddr ==
    /\ InitLocals
    /\ op = "get_available_port_in_multiaddr"
    /\ is_ipv4 \in BOOLEAN
    /\ if_addrs = NoIfAddrs
    /\ config = NoConfig
    /\ occupied \in SUBSET PortSample

NextMultiaddr ==
    \/ CallMultiaddr
    \/ AllocStep
    \/ FromProtocols
    \/ EnvStep

SpecMultiaddr == InitMultiaddr /\ [][NextMultiaddr]_vars

----------------------------------------------------------------------------
(* get_local_ip *)

\* the longest list of interfaces get_if_addrs() answers in the model
MaxIfAddrs == 3

IpSample == {V4(<<127, 0, 0, 1>>), V4(<<10, 0, 0, 5>>),
             V6(<<0, 0, 0, 0, 0, 0, 0, 1>>), V6(<<65152, 0, 0, 0, 0, 0, 0, 1>>)}

\* IfAddr::ip()
ip(if_addr) == if_addr.ip

\* IfAddr::is_loopback(): 127.0.0.0/8 and ::1
is_loopback(if_addr) ==
    IF ip(if_addr).v = 4
        THEN ip(if_addr).a[1] = 127
        ELSE ip(if_addr).a = <<0, 0, 0, 0, 0, 0, 0, 1>>

\* line 52: the predicate given to find
wanted_loopback(if_addr) == is_loopback(if_addr)

wanted(if_addr) == ~is_loopback(if_addr)

\* Iterator::find: the first element the predicate accepts
RECURSIVE find(_, _)
find(list, k) ==
    IF k > Len(list) THEN None
    ELSE IF wanted(list[k]) THEN Some(list[k])
    ELSE find(list, k + 1)

\* lines 49-54
get_local_ip(answer) ==
    IF ~answer.ok THEN None
    ELSE IF find(answer.val, 1) = None THEN None
    ELSE Some(NetworkAddress_from(Protocol_from(ip(find(answer.val, 1)[1]))))

RECURSIVE ListsUpTo(_, _)
ListsUpTo(S, n) ==
    IF n = 0 THEN {<<>>}
    ELSE ListsUpTo(S, n - 1)
         \cup {Append(l, x) : l \in {m \in ListsUpTo(S, n - 1) : Len(m) = n - 1}, x \in S}

IfAddrsAnswers ==
    {NoIfAddrs} \cup {[ok |-> TRUE, val |-> l] :
                         l \in ListsUpTo({[ip |-> a] : a \in IpSample}, MaxIfAddrs)}

GetLocalIp ==
    /\ pc = "start"
    /\ op = "get_local_ip"
    /\ out' = get_local_ip(if_addrs)
    /\ pc' = "returned"
    /\ UNCHANGED <<allocVars, osVars, inputVars, ip_proto>>

InitLocalIp ==
    /\ InitLocals
    /\ op = "get_local_ip"
    /\ is_ipv4 = FALSE
    /\ if_addrs \in IfAddrsAnswers
    /\ config = NoConfig
    /\ occupied = {}

NextLocalIp == GetLocalIp

SpecLocalIp == InitLocalIp /\ [][NextLocalIp]_vars

----------------------------------------------------------------------------
(* get_genesis_txn *)

\* the transactions and the values of the other fields of the model's configs
NumTxns == 4
MaxOther == 3

Configs ==
    [execution : [genesis : {None} \cup {Some([txn |-> t]) : t \in 1..NumTxns},
                  other : 0..MaxOther],
     other : 0..MaxOther]

\* Option::as_ref: the stored value is lent, the option stays as it is
get_genesis_txn_take(c) ==
    [ret |-> c.execution.genesis, config |-> [c EXCEPT !.execution.genesis = None]]

get_genesis_txn(c) ==
    [ret |-> c.execution.genesis, config |-> c]

GetGenesisTxn ==
    /\ pc = "start"
    /\ op = "get_genesis_txn"
    /\ out' = get_genesis_txn(config).ret
    /\ config' = get_genesis_txn(config).config
    /\ pc' = "returned"
    /\ UNCHANGED <<allocVars, osVars, op, is_ipv4, if_addrs, ip_proto>>

InitGenesis ==
    /\ InitLocals
    /\ op = "get_genesis_txn"
    /\ is_ipv4 = FALSE
    /\ if_addrs = NoIfAddrs
    /\ config \in Configs
    /\ occupied = {}

NextGenesis == GetGenesisTxn

SpecGenesis == InitGenesis /\ [][NextGenesis]_vars

----------------------------------------------------------------------------
(* The allocator under fair scheduling: the calling thread is never starved, *)
(* and each OS call returns.                                                 *)

FairSpec == Spec /\ WF_vars(CallGetAvailablePort \/ AllocStep)

----------------------------------------------------------------------------
(* Properties *)

IsPrefix(s, t) == Len(s) <= Len(t) /\ \A k \in 1..Len(s) : s[k] = t[k]

AttemptSteps == <<"draw", "bind", "local_addr", "connect", "accept">>
FullLog == AttemptSteps \o <<"drop", "drop", "drop">>

NotDrop(x) == x # "drop"

InRange(p) == RANDOM_PORT_RANGE.start <= p /\ p < RANDOM_PORT_RANGE.end

\* C1: a port returned by get_available_port lies in [10000, 30000); it is
\* never 0 and never 30000, whatever ports are occupied and whatever is drawn.
C1_PortInRange ==
    result # None =>
        /\ InRange(result[1])
        /\ result[1] # 0
        /\ result[1] # RANDOM_PORT_RANGE.end

C1_Witness ==
    /\ pc = "returned"
    /\ result = Some(RANDOM_PORT_RANGE.end - 1)
    /\ failures > 0
    /\ RANDOM_PORT_RANGE.start \in occupied

\* C2: when all 1000 attempts have failed the call panics and returns nothing:
\* no port is returned after 1000 failed attempts, a panic only follows 1000
\* failures, and a returned port is never 0 or otherwise invalid.
C2_ExhaustionPanics ==
    /\ [](failures = MAX_PORT_RETRIES => result = None /\ pc \in {"for", "panicked"})
    /\ [](pc = "panicked" => failures = MAX_PORT_RETRIES /\ result = None)
    /\ [](pc = "returned" => result # None /\ result[1] # 0 /\ InRange(result[1]))
    /\ [][failures = MAX_PORT_RETRIES /\ pc = "for" /\ pc' # pc => pc' = "panicked"]_vars

C2_Witness ==
    /\ pc = "panicked"
    /\ failures = MAX_PORT_RETRIES
    /\ i = MAX_PORT_RETRIES
    /\ result = None

\* C3: a failed attempt is not shown to the caller: with budget left a failure
\* is followed by a new draw, the first attempt that succeeds returns its port,
\* and the call ends only with a port or with the abort on exhaustion.
C3_FailureNotSurfaced ==
    /\ [](pc = "panicked" => failures = MAX_PORT_RETRIES)
    /\ [](pc = "returned" => rv.ok /\ result = Some(rv.port) /\ failures = i - 1)
    /\ [][pc = "if_let" /\ ~rv.ok /\ pc' # pc => pc' = "for" /\ result' = None]_vars
    /\ [][pc = "for" /\ i < MAX_PORT_RETRIES /\ pc' # pc => pc' = "gen_range"]_vars
    /\ [][pc = "if_let" /\ rv.ok /\ pc' # pc
              => pc' = "returned" /\ result' = Some(rv.port)]_vars

C3_Witness ==
    /\ pc = "returned"
    /\ failures = 2
    /\ i = 3
    /\ result = Some(port)

\* C4, as the claim states it: while the returned port is in TIME_WAIT the
\* caller can bind it with SO_REUSEADDR, whatever other processes bind meanwhile.
C4_BindableAfterReturn ==
    pc = "returned" /\ result[1] \in time_wait => Bindable(result[1])

\* C4, amended: on return the port is in TIME_WAIT and the allocator has no
\* socket left; when its listener closes no other listener is on the port; after
\* the return the caller can bind the port with SO_REUSEADDR exactly as long as no
\* other process has bound it.
C4_BestEffortReservation ==
    /\ [][pc # "returned" /\ pc' = "returned" => result'[1] \in time_wait']_vars
    /\ [][ListenerPorts(open) # {} /\ ListenerPorts(open') = {}
              => \A p \in ListenerPorts(open) : p \notin occupied']_vars
    /\ [](pc = "returned"
              => open = {} /\ (Bindable(result[1]) <=> result[1] \notin occupied))

C4_Witness ==
    /\ pc = "returned"
    /\ open = {}
    /\ result[1] \in time_wait
    /\ result[1] \in occupied

\* C5: get_local_ip returns the IP of the first interface, in the order of
\* enumeration, that is not loopback, and None when enumeration fails, answers
\* no interface or answers only loopback ones; it never returns a loopback IP
\* and never aborts.
C5_FirstNonLoopback ==
    /\ pc # "panicked"
    /\ pc = "returned" =>
           LET list == if_addrs.val
               hits == {k \in 1..Len(list) : ~is_loopback(list[k])}
           IN  IF ~if_addrs.ok \/ hits = {}
                   THEN out = None
                   ELSE LET k == CHOOSE n \in hits : \A m \in hits : n <= m
                        IN  /\ out # None
                            /\ Len(out[1]) = 1
                            /\ out[1][1].addr = list[k].ip.a
                            /\ out[1][1].tag = (IF list[k].ip.v = 4 THEN "Ip4" ELSE "Ip6")
                            /\ ~is_loopback([ip |-> list[k].ip])

C5_Witness ==
    /\ pc = "returned"
    /\ if_addrs.ok
    /\ Len(if_addrs.val) = 3
    /\ is_loopback(if_addrs.val[1])
    /\ ~is_loopback(if_addrs.val[2])
    /\ ~is_loopback(if_addrs.val[3])
    /\ if_addrs.val[2] # if_addrs.val[3]
    /\ out = Some(<<Protocol_from(if_addrs.val[2].ip)>>)

\* C6: get_available_port_in_multiaddr returns an address of exactly two
\* components, an IP component (0.0.0.0 for is_ipv4, ::1 otherwise) followed by
\* a TCP component carrying the port get_available_port returned, which lies in
\* [10000, 30000).
C6_MultiaddrShape ==
    pc = "returned" =>
        /\ out # None
        /\ Len(out[1]) = 2
        /\ out[1][1].tag = (IF is_ipv4 THEN "Ip4" ELSE "Ip6")
        /\ out[1][1].addr = (IF is_ipv4 THEN <<0, 0, 0, 0>>
                                         ELSE <<0, 0, 0, 0, 0, 0, 0, 1>>)
        /\ out[1][2].tag = "Tcp"
        /\ result # None
        /\ out[1][2].port = result[1]
        /\ InRange(out[1][2].port)
        /\ failures = i - 1

C6_Witness ==
    /\ pc = "returned"
    /\ ~is_ipv4
    /\ failures > 0
    /\ out = Some(<<Ip6(<<0, 0, 0, 0, 0, 0, 0, 1>>), Tcp(RANDOM_PORT_RANGE.end - 1)>>)

\* C7: get_genesis_txn returns the transaction stored in
\* config.execution.genesis, or None when the field is unset, and leaves the
\* configuration as it was.
C7_GenesisAccessor ==
    [][pc = "start" /\ pc' = "returned"
           => /\ config' = config
              /\ out' = IF config.execution.genesis = None
                            THEN None
                            ELSE Some(config.execution.genesis[1])]_vars

C7_Witness ==
    /\ pc = "returned"
    /\ out = Some([txn |-> NumTxns])
    /\ config.execution.genesis = out
    /\ config.other = MaxOther

\* C8: an attempt draws, binds, reads the address back, connects, accepts and
\* then drops its sockets, in this order; a port is returned only by an attempt
\* in which all of these succeeded, and it is the port this attempt drew and
\* bound, not one the OS chose.
C8_AttemptOrder ==
    /\ IsPrefix(SelectSeq(log, NotDrop), AttemptSteps)
    /\ \A k \in 1..Len(log) : log[k] = "drop" => \A m \in k..Len(log) : log[m] = "drop"
    /\ \A s \in open : s.kind = "listener" => s.local = port
    /\ addr # None => addr[1].port = port
    /\ rv.ok /\ pc \in {"drop", "if_let"} => IsPrefix(AttemptSteps, log)
    /\ result # None =>
           /\ log = FullLog
           /\ result[1] = port
           /\ result[1] \notin EphemeralPorts

C8_Witness ==
    /\ pc = "returned"
    /\ log = FullLog
    /\ failures > 0
    /\ result = Some(port)

\* C9: every socket an attempt opened is closed when the attempt ends, however
\* it ends; an attempt never has more than three sockets open; the call holds
\* no socket between attempts, on return or on abort.
C9_NoSocketLeft ==
    /\ Cardinality(open) <= 3
    /\ \A s \in open : s.attempt = i
    /\ open = {sockets[k] : k \in 1..Len(sockets)}
    /\ pc \in {"start", "for", "gen_range", "bind", "if_let", "returned", "panicked"}
           => open = {}

C9_Witness ==
    /\ pc = "if_let"
    /\ ~rv.ok
    /\ log = <<"draw", "bind", "local_addr", "connect", "drop", "drop">>
    /\ open = {}
    /\ i > 1

\* C10: a failure at any step of an attempt ends the attempt, uses up one unit
\* of the retry budget and leads to a new draw; a call makes at most 1000
\* attempts and, each OS call returning, ends with a port or with the abort.
C10_BoundedRetries ==
    /\ [](i <= MAX_PORT_RETRIES /\ failures <= i)
    /\ [](pc = "for" => failures = i)
    /\ [][pc' # pc /\ log' = log /\ pc \in {"bind", "local_addr", "connect", "accept"}
              => pc' = "drop" /\ rv' = Err]_vars
    /\ [][pc = "if_let" /\ ~rv.ok /\ pc' # pc
              => failures' = failures + 1 /\ pc' = "for"]_vars
    /\ <>(pc \in {"returned", "panicked"})

C10_Witness ==
    /\ pc = "gen_range"
    /\ failures = 4
    /\ i = 5
    /\ log = <<"draw", "bind", "local_addr", "connect", "drop", "drop">>

====
